---- MODULE Spec2Model ----
(***************************************************************************)
(* A model of goraytracer: package geom (points, vectors, the sphere/line  *)
(* intersection), package raytracer (scene validation, castRay,            *)
(* renderPixel and the concurrent Render) and the goray driver.            *)
(*                                                                         *)
(* float64 values are modelled exactly: a finite value is a number         *)
(* u + v*sqrt(k) with u, v, k rational, so that comparisons (t < tmin,     *)
(* d < 0, dot < 0) and the truncation uint8(c*255) are decided without     *)
(* rounding; 0/0 is NaN, and every comparison with NaN is false, as in Go. *)
(***************************************************************************)
EXTENDS Integers, Sequences, FiniteSets, TLC

\* Let1(e, LAMBDA x : b) is LET x == e IN b, and similarly Let2 and Let3,
\* with e evaluated once, before b, however often b uses x.
Let1(e1, B(_)) == CHOOSE r \in {B(x1) : x1 \in {e1}} : TRUE

Let2(e1, e2, B(_, _)) == CHOOSE r \in {B(x1, x2) : x1 \in {e1}, x2 \in {e2}} : TRUE

Let3(e1, e2, e3, B(_, _, _)) ==
    CHOOSE r \in {B(x1, x2, x3) : x1 \in {e1}, x2 \in {e2}, x3 \in {e3}} : TRUE

(***************************************************************************)
(* Rationals n/d, d > 0, in lowest terms.                                  *)
(***************************************************************************)
Abs(i) == IF i < 0 THEN -i ELSE i

Gcd[a \in Nat, b \in Nat] == IF b = 0 THEN a ELSE Gcd[b, a % b]

Q(n0, d0) ==
    Let2(n0, d0, LAMBDA num, den :
        Let1(Gcd[Abs(num), Abs(den)], LAMBDA g :
            IF den < 0 THEN [n |-> -(num \div g), d |-> -(den \div g)]
            ELSE [n |-> num \div g, d |-> den \div g]))

QI(i) == [n |-> i, d |-> 1]

QZero == [n |-> 0, d |-> 1]

QOne == [n |-> 1, d |-> 1]

QAdd(a0, b0) ==
    Let2(a0, b0, LAMBDA a, b :
        Let1(Gcd[a.d, b.d], LAMBDA g :
            Q(a.n * (b.d \div g) + b.n * (a.d \div g), (a.d \div g) * b.d)))

QNeg(a) == [n |-> -a.n, d |-> a.d]

QSub(a, b) == QAdd(a, QNeg(b))

QMul(a0, b0) ==
    Let2(a0, b0, LAMBDA a, b :
        IF a.n = 0 \/ b.n = 0 THEN QZero
        ELSE Let2(Gcd[Abs(a.n), b.d], Gcd[Abs(b.n), a.d], LAMBDA g1, g2 :
                [n |-> (a.n \div g1) * (b.n \div g2), d |-> (a.d \div g2) * (b.d \div g1)]))

\* 1/a, for a # 0.
QInv(a0) == Let1(a0, LAMBDA a : IF a.n < 0 THEN [n |-> -a.d, d |-> -a.n]
                                ELSE [n |-> a.d, d |-> a.n])

QSign(a) == IF a.n > 0 THEN 1 ELSE IF a.n < 0 THEN -1 ELSE 0

QCmp(a, b) == QSign(QSub(a, b))

\* The integer square root of a >= 0 (the largest r with r*r <= a), by
\* bisection: lo*lo <= a < hi*hi throughout.
ISqrtIn[a \in Nat, lo \in Nat, hi \in Nat] ==
    IF hi - lo <= 1 THEN lo
    ELSE IF ((lo + hi) \div 2) * ((lo + hi) \div 2) <= a
         THEN ISqrtIn[a, (lo + hi) \div 2, hi]
         ELSE ISqrtIn[a, lo, (lo + hi) \div 2]

ISqrt(a) == ISqrtIn[a, 0, IF a < 46340 THEN a + 1 ELSE 46341]

IsSquare(a) == a >= 0 /\ ISqrt(a) * ISqrt(a) = a

\* The sign of p + q*sqrt(k), for rationals p, q and k >= 0.
SignPQ(p0, q0, k0) ==
    Let3(p0, q0, k0, LAMBDA p, q, k :
        Let2(QSign(p), QSign(q) * QSign(k), LAMBDA sp, sq :
            IF sq = 0 THEN sp
            ELSE IF sp = 0 \/ sp = sq THEN sq
            ELSE Let1(QCmp(QMul(p, p), QMul(QMul(q, q), k)), LAMBDA c :
                    IF c > 0 THEN sp ELSE IF c < 0 THEN sq ELSE 0)))

\* The sign of s == a*sqrt(m) + b*sqrt(k), given a^2 m and b^2 k.
SignSum(a, m, b, k, am, bk) ==
    Let2(QSign(a) * QSign(m), QSign(b) * QSign(k), LAMBDA sa, sb :
        IF sa = 0 THEN sb
        ELSE IF sb = 0 \/ sa = sb THEN sa
        ELSE Let1(QCmp(am, bk), LAMBDA c :
                IF c > 0 THEN sa ELSE IF c < 0 THEN sb ELSE 0))

\* The sign of u + a*sqrt(m) + b*sqrt(k), for rationals u, a, b and m, k >= 0.
\* When u and s == a*sqrt(m) + b*sqrt(k) have opposite signs, u^2 is compared
\* with s^2 = a^2 m + b^2 k + 2ab*sqrt(mk).
Sign3(u, a, m, b, k) ==
    Let2(QMul(QMul(a, a), m), QMul(QMul(b, b), k), LAMBDA am, bk :
        Let2(QSign(u), SignSum(a, m, b, k, am, bk), LAMBDA su, ss :
            IF ss = 0 THEN su
            ELSE IF su = 0 \/ su = ss THEN ss
            ELSE Let1(SignPQ(QSub(QMul(u, u), QAdd(am, bk)),
                             QMul(QI(-2), QMul(a, b)), QMul(m, k)), LAMBDA c :
                    IF c > 0 THEN su ELSE IF c < 0 THEN ss ELSE 0)))

(***************************************************************************)
(* float64.  A value is NaN, math.MaxFloat64, or the finite number         *)
(* u + v*sqrt(k).  A finite value is kept in a normal form: v = 0 and      *)
(* k = 0 when it is rational (in particular when k is a perfect square).   *)
(***************************************************************************)
NaN == [kind |-> "nan"]

MaxFloat64 == [kind |-> "max"]

Rational(u) == [kind |-> "fin", u |-> u, v |-> QZero, k |-> QZero]

\* u + v*sqrt(k), where v*sqrt(k) is irrational unless v = 0.
Surd(u, v, k) ==
    IF v.n = 0 THEN Rational(u) ELSE [kind |-> "fin", u |-> u, v |-> v, k |-> k]

\* u + v*sqrt(k) for any k >= 0: the root of a perfect square is taken.
Fin(u0, v0, k0) ==
    Let3(u0, v0, k0, LAMBDA u, v, k :
        IF v.n = 0 \/ k.n = 0 THEN Rational(u)
        ELSE IF IsSquare(k.n) /\ IsSquare(k.d)
             THEN Rational(QAdd(u, QMul(v, [n |-> ISqrt(k.n), d |-> ISqrt(k.d)])))
             ELSE [kind |-> "fin", u |-> u, v |-> v, k |-> k])

F(i) == Rational(QI(i))

FQ(num, den) == Rational(Q(num, den))

IsNaN(x) == x.kind = "nan"

IsRational(x) == x.kind = "fin" /\ x.v.n = 0

IsZero(x) == IsRational(x) /\ x.u.n = 0

\* x + y.  Two irrational operands must lie in the same field Q(sqrt(k)).
FAdd(x0, y0) ==
    Let2(x0, y0, LAMBDA x, y :
        CASE IsNaN(x) \/ IsNaN(y) -> NaN
          [] x.kind = "fin" /\ y.kind = "fin" /\ x.v.n = 0 ->
                Surd(QAdd(x.u, y.u), y.v, y.k)
          [] x.kind = "fin" /\ y.kind = "fin" /\ x.v.n # 0 /\ y.v.n = 0 ->
                Surd(QAdd(x.u, y.u), x.v, x.k)
          [] x.kind = "fin" /\ y.kind = "fin" /\ x.v.n # 0 /\ y.v.n # 0 /\ x.k = y.k ->
                Surd(QAdd(x.u, y.u), QAdd(x.v, y.v), x.k))

FNeg(x0) ==
    Let1(x0, LAMBDA x :
        IF IsNaN(x) THEN NaN ELSE [kind |-> "fin", u |-> QNeg(x.u), v |-> QNeg(x.v), k |-> x.k])

FSub(x, y) == FAdd(x, FNeg(y))

\* x * y.  Two irrational operands lie in the same field, or are both pure
\* surds v*sqrt(k).
FMul(x0, y0) ==
    Let2(x0, y0, LAMBDA x, y :
        CASE IsNaN(x) \/ IsNaN(y) -> NaN
          [] x.kind = "fin" /\ y.kind = "fin" /\ x.v.n = 0 ->
                Surd(QMul(x.u, y.u), QMul(x.u, y.v), y.k)
          [] x.kind = "fin" /\ y.kind = "fin" /\ x.v.n # 0 /\ y.v.n = 0 ->
                Surd(QMul(x.u, y.u), QMul(x.v, y.u), x.k)
          [] x.kind = "fin" /\ y.kind = "fin" /\ x.v.n # 0 /\ y.v.n # 0 /\ x.k = y.k ->
                Surd(QAdd(QMul(x.u, y.u), QMul(QMul(x.v, y.v), x.k)),
                     QAdd(QMul(x.u, y.v), QMul(x.v, y.u)), x.k)
          [] x.kind = "fin" /\ y.kind = "fin" /\ x.v.n # 0 /\ y.v.n # 0 /\ x.k # y.k
                /\ x.u.n = 0 /\ y.u.n = 0 ->
                Fin(QZero, QMul(x.v, y.v), QMul(x.k, y.k)))

\* 1/y for a finite y # 0: (u - v*sqrt(k)) / (u^2 - v^2 k).
FInv(y) ==
    Let1(QInv(QSub(QMul(y.u, y.u), QMul(QMul(y.v, y.v), y.k))), LAMBDA i :
        Surd(QMul(y.u, i), QNeg(QMul(y.v, i)), y.k))

\* x / y.  The only division by zero the program performs is 0/0 (the
\* parameter of a ray of length zero, the unit vector of the zero vector).
FDiv(x0, y0) ==
    Let2(x0, y0, LAMBDA x, y :
        CASE IsNaN(x) \/ IsNaN(y) -> NaN
          [] x.kind = "fin" /\ y.kind = "fin" /\ IsZero(y) /\ IsZero(x) -> NaN
          [] x.kind = "fin" /\ y.kind = "fin" /\ ~IsZero(y) -> FMul(x, FInv(y)))

\* math.Sqrt of a rational: NaN below zero.
FSqrt(x0) ==
    Let1(x0, LAMBDA x :
        CASE IsNaN(x) -> NaN
          [] IsRational(x) /\ x.u.n < 0 -> NaN
          [] IsRational(x) /\ x.u.n >= 0 -> Fin(QZero, QOne, x.u))

\* The sign of the finite value y - x.
SignDiff(x, y) ==
    IF x.v.n = 0 /\ y.v.n = 0 THEN QCmp(y.u, x.u)
    ELSE Sign3(QSub(y.u, x.u), y.v, y.k, QNeg(x.v), x.k)

\* x < y: false when either is NaN; every finite value is below MaxFloat64.
FLt(x0, y0) ==
    Let2(x0, y0, LAMBDA x, y :
        CASE IsNaN(x) \/ IsNaN(y) -> FALSE
          [] x.kind = "max" /\ ~IsNaN(y) -> FALSE
          [] x.kind = "fin" /\ y.kind = "max" -> TRUE
          [] x.kind = "fin" /\ y.kind = "fin" -> SignDiff(x, y) > 0)

FLe(x0, y0) ==
    Let2(x0, y0, LAMBDA x, y :
        CASE IsNaN(x) \/ IsNaN(y) -> FALSE
          [] x.kind = "max" /\ ~IsNaN(y) -> y.kind = "max"
          [] x.kind = "fin" /\ y.kind = "max" -> TRUE
          [] x.kind = "fin" /\ y.kind = "fin" -> SignDiff(x, y) >= 0)

Zero == F(0)

One == F(1)

Two == F(2)

\* The floor of a finite x with lo <= x < hi, by bisection.
RECURSIVE FloorIn(_, _, _)
FloorIn(x, lo0, hi0) ==
    Let2(lo0, hi0, LAMBDA lo, hi :
        IF hi - lo <= 1 THEN lo
        ELSE IF FLe(F((lo + hi) \div 2), x) THEN FloorIn(x, (lo + hi) \div 2, hi)
             ELSE FloorIn(x, lo, (lo + hi) \div 2))

(***************************************************************************)
(* Package geom.                                                           *)
(***************************************************************************)
Point(x, y, z) == [X |-> x, Y |-> y, Z |-> z]

Origin == Point(Zero, Zero, Zero)

\* A Line is [2]Point: l[1] is Go's l[0] and l[2] is Go's l[1].
Line(p0, p1) == <<p0, p1>>

Plane2d(tlx, tly, brx, bry, z) ==
    [Tl |-> [X |-> tlx, Y |-> tly], Br |-> [X |-> brx, Y |-> bry], Z |-> z]

Dx(p) == FSub(p.Br.X, p.Tl.X)

Dy(p) == FSub(p.Tl.Y, p.Br.Y)

MakeVector(head, tail) ==
    [X |-> FSub(head.X, tail.X), Y |-> FSub(head.Y, tail.Y), Z |-> FSub(head.Z, tail.Z)]

Module(v) == FSqrt(FAdd(FAdd(FMul(v.X, v.X), FMul(v.Y, v.Y)), FMul(v.Z, v.Z)))

UnitVector(v0) ==
    Let1(v0, LAMBDA v :
        Let1(Module(v), LAMBDA m :
            [X |-> FDiv(v.X, m), Y |-> FDiv(v.Y, m), Z |-> FDiv(v.Z, m)]))

DotProduct(lhs, rhs) ==
    FAdd(FAdd(FMul(lhs.X, rhs.X), FMul(lhs.Y, rhs.Y)), FMul(lhs.Z, rhs.Z))

GeomSphere(c, r) == [Center |-> c, Radius |-> r]

\* A normal taken from the point to the centre.
NormalVectorAtInward(s, p) == UnitVector(MakeVector(s.Center, p))

NormalVectorAt(s, p) == UnitVector(MakeVector(p, s.Center))

\* The a, b and c of the quadratic in t, for the line l of direction
\* (dx, dy, dz) and the sphere s.
quadA(dx, dy, dz) == FAdd(FAdd(FMul(dx, dx), FMul(dy, dy)), FMul(dz, dz))

quadB(s, l, dx, dy, dz) ==
    FAdd(FAdd(FMul(FMul(Two, dx), FSub(l[1].X, s.Center.X)),
              FMul(FMul(Two, dy), FSub(l[1].Y, s.Center.Y))),
         FMul(FMul(Two, dz), FSub(l[1].Z, s.Center.Z)))

quadC(s, l) ==
    FSub(FSub(FAdd(FAdd(FAdd(FAdd(FAdd(FMul(s.Center.X, s.Center.X),
                                       FMul(s.Center.Y, s.Center.Y)),
                                  FMul(s.Center.Z, s.Center.Z)),
                             FMul(l[1].X, l[1].X)),
                        FMul(l[1].Y, l[1].Y)),
                   FMul(l[1].Z, l[1].Z)),
              FMul(Two, FAdd(FAdd(FMul(s.Center.X, l[1].X), FMul(s.Center.Y, l[1].Y)),
                             FMul(s.Center.Z, l[1].Z)))),
         FMul(s.Radius, s.Radius))

\* The point of l nearest to l[0] where l meets s, its parameter t, and ok.
SphereLineIntersection(s0, l0) ==
    Let2(s0, l0, LAMBDA s, l :
      Let3(FSub(l[2].X, l[1].X), FSub(l[2].Y, l[1].Y), FSub(l[2].Z, l[1].Z),
           LAMBDA dx, dy, dz :
        Let3(quadA(dx, dy, dz), quadB(s, l, dx, dy, dz), quadC(s, l), LAMBDA a, b, c :
          Let1(FSub(FMul(b, b), FMul(FMul(F(4), a), c)), LAMBDA d :
            IF FLt(d, Zero)
            THEN [p |-> Origin, t |-> MaxFloat64, ok |-> FALSE]
            ELSE Let1(FDiv(FSub(FNeg(b), FSqrt(d)), FMul(Two, a)), LAMBDA t :
                    [p  |-> Point(FAdd(l[1].X, FMul(t, dx)),
                                  FAdd(l[1].Y, FMul(t, dy)),
                                  FAdd(l[1].Z, FMul(t, dz))),
                     t  |-> t,
                     ok |-> TRUE])))))

(***************************************************************************)
(* Package raytracer: the scene and its validation.  An error is the       *)
(* sequence of the messages fmt.Errorf chains, outermost first; nil is     *)
(* the empty sequence.                                                     *)
(***************************************************************************)
Color(r, g, b) == [R |-> r, G |-> g, B |-> b]

Sphere(sph, col) == [Sphere |-> sph, Color |-> col]

Frustum(near, far) == [Near |-> near, Far |-> far]

Scene(fr, light, objs, bg, kd) ==
    [ViewFrustum |-> fr, Light |-> light, Objects |-> objs, Bg |-> bg, Kd |-> kd]

nil == <<>>

Errorf(msg, err) == <<msg>> \o err

isColorChannelValid(c) == FLe(Zero, c) /\ FLe(c, One)

ColorValidate(c) ==
    IF isColorChannelValid(c.R) /\ isColorChannelValid(c.G) /\ isColorChannelValid(c.B)
    THEN nil
    ELSE <<"color out-of-range">>

GeomSphereValidate(s) ==
    IF FLt(s.Radius, Zero) THEN <<"invalid sphere: negative radius">> ELSE nil

PlaneValidate(p) ==
    IF FLe(p.Br.X, p.Tl.X) \/ FLe(p.Tl.Y, p.Br.Y)
    THEN <<"negative or null plane width or height">>
    ELSE nil

SphereValidate(s) ==
    Let1(GeomSphereValidate(s.Sphere), LAMBDA err :
        IF err # nil THEN err
        ELSE Let1(ColorValidate(s.Color), LAMBDA cerr :
                IF cerr # nil THEN Errorf("invalid sphere", cerr) ELSE nil))

FrustumValidate(f) ==
    Let1(PlaneValidate(f.Near), LAMBDA err :
        IF err # nil THEN Errorf("invalid near frustum plane", err)
        ELSE Let1(PlaneValidate(f.Far), LAMBDA ferr :
                IF ferr # nil THEN Errorf("invalid far frustum plane", ferr) ELSE nil))

\* The loop over s.Objects, from index i on.
RECURSIVE ValidateObjects(_, _)
ValidateObjects(objs, i0) ==
    Let1(i0, LAMBDA i :
        IF i > Len(objs) THEN nil
        ELSE Let1(SphereValidate(objs[i]), LAMBDA err :
                IF err # nil THEN Errorf("invalid scene object", err)
                ELSE ValidateObjects(objs, i + 1)))

Validate(s) ==
    Let1(ValidateObjects(s.Objects, 1), LAMBDA err :
        IF err # nil THEN err
        ELSE Let1(ColorValidate(s.Bg), LAMBDA berr :
            IF berr # nil THEN Errorf("invalid scene background", berr)
            ELSE IF FLt(s.Kd, Zero) \/ FLt(One, s.Kd)
                 THEN <<"invalid scene diffuse coefficient">>
                 ELSE Let1(FrustumValidate(s.ViewFrustum), LAMBDA ferr :
                        IF ferr # nil THEN Errorf("invalid scene frustum", ferr)
                        ELSE nil)))

(***************************************************************************)
(* Shading and visibility.  An object is named by its index in             *)
(* s.Objects, 1..Len; NoObject is Go's nil *Sphere (imin == -1).           *)
(***************************************************************************)
NoObject == 0

diffuseShading(factor, kd, channel) ==
    FAdd(FMul(FMul(factor, kd), channel), FMul(factor, FSub(One, kd)))

RECURSIVE rayHitsObjectFrom(_, _, _)
rayHitsObjectFrom(s, ray, i0) ==
    Let1(i0, LAMBDA i :
        IF i > Len(s.Objects) THEN FALSE
        ELSE IF SphereLineIntersection(s.Objects[i].Sphere, ray).ok THEN TRUE
             ELSE rayHitsObjectFrom(s, ray, i + 1))

rayHitsObject(s, ray) == rayHitsObjectFrom(s, ray, 1)

\* The loop of castRay from index i on, with the running tmin, pmin, imin.
RECURSIVE castRayFrom(_, _, _, _)
castRayFrom(s, ray, i0, m0) ==
    Let2(i0, m0, LAMBDA i, m :
        IF i > Len(s.Objects) THEN m
        ELSE Let1(SphereLineIntersection(s.Objects[i].Sphere, ray), LAMBDA r :
                IF r.ok /\ FLt(r.t, m.tmin)
                THEN castRayFrom(s, ray, i + 1, [tmin |-> r.t, pmin |-> r.p, imin |-> i])
                ELSE castRayFrom(s, ray, i + 1, m)))

castRay(s0, ray0) ==
    Let2(s0, ray0, LAMBDA s, ray :
        Let1(castRayFrom(s, ray, 1, [tmin |-> MaxFloat64, pmin |-> Origin,
                                     imin |-> NoObject]), LAMBDA m :
            IF m.imin = NoObject
            THEN [obj |-> NoObject, intersection |-> Origin]
            ELSE [obj |-> m.imin, intersection |-> m.pmin]))

computeObjectColorAt(s, obj, p) ==
    Let2(NormalVectorAt(s.Objects[obj].Sphere, p), UnitVector(MakeVector(s.Light, p)),
         LAMBDA normal, light :
        Let1(DotProduct(light, normal), LAMBDA dot0 :
            Let1(IF FLt(dot0, Zero) THEN Zero ELSE dot0, LAMBDA dot :
                Color(diffuseShading(dot, s.Kd, s.Objects[obj].Color.R),
                      diffuseShading(dot, s.Kd, s.Objects[obj].Color.G),
                      diffuseShading(dot, s.Kd, s.Objects[obj].Color.B)))))

\* uint8(f) for a float64 f.  Go truncates a value in range; the result for
\* NaN or a value out of range is implementation-dependent: o is the byte
\* the build at hand produces.
Uint8(f0, o) ==
    Let1(f0, LAMBDA f :
        IF f.kind = "fin" /\ FLt(F(-1), f) /\ FLt(f, F(256))
        THEN IF FLt(f, Zero) THEN 0 ELSE FloorIn(f, 0, 256)
        ELSE o)

toRGBA(c0, o) ==
    Let1(c0, LAMBDA c :
        [R |-> Uint8(FMul(c.R, F(255)), o),
         G |-> Uint8(FMul(c.G, F(255)), o),
         B |-> Uint8(FMul(c.B, F(255)), o),
         A |-> 255])

\* The primary ray of renderPixel: from the pixel on the near plane to its
\* extrapolation on the far plane.
primaryRay(s, x, y) ==
    Let2(FDiv(FMul(x, Dx(s.ViewFrustum.Far)), Dx(s.ViewFrustum.Near)),
         FDiv(FMul(y, Dy(s.ViewFrustum.Far)), Dx(s.ViewFrustum.Near)),
         LAMBDA xfar, yfar :
            Line(Point(x, y, s.ViewFrustum.Near.Z), Point(xfar, yfar, s.ViewFrustum.Far.Z)))

\* The colour of a point of an object in the shadow of another.
shadowColor(s, obj) ==
    Color(FMul(FSub(One, s.Kd), s.Objects[obj].Color.R),
          FMul(FSub(One, s.Kd), s.Objects[obj].Color.G),
          FMul(FSub(One, s.Kd), s.Objects[obj].Color.B))

bgShadowPixel(c) == Color(FDiv(c.R, Two), FDiv(c.G, Two), FDiv(c.B, Two))

\* A point of obj whose ray to the light stops at any object, obj included.
isShadowedByAny(other, obj) == other # NoObject

\* if other != nil && other != obj
isShadowed(other, obj) == other # NoObject /\ other # obj

\* The colour renderPixel computes, before its conversion to RGBA.
pixelColor(s, x0, y0) ==
    Let2(x0, y0, LAMBDA x, y :
      Let1(primaryRay(s, x, y), LAMBDA ray :
        Let1(castRay(s, ray), LAMBDA hit :
          IF hit.obj # NoObject
          THEN Let1(castRay(s, Line(s.Light, hit.intersection)), LAMBDA other :
                  IF isShadowed(other.obj, hit.obj)
                  THEN shadowColor(s, hit.obj)
                  ELSE computeObjectColorAt(s, hit.obj, hit.intersection))
          ELSE IF rayHitsObject(s, Line(ray[2], s.Light))
               THEN bgShadowPixel(s.Bg)
               ELSE s.Bg)))

renderPixel(s, x, y, o) == toRGBA(pixelColor(s, x, y), o)

(***************************************************************************)
(* Images (image.RGBA).                                                    *)
(***************************************************************************)
\* int(f) of a rational float64: truncation toward zero.
IntOf(f) == IF f.u.n >= 0 THEN f.u.n \div f.u.d ELSE -((-f.u.n) \div f.u.d)

ZeroRGBA == [R |-> 0, G |-> 0, B |-> 0, A |-> 0]

NilImage == [W |-> -1, H |-> -1, Pix |-> <<>>]

\* image.NewRGBA(image.Rect(0, 0, w, h)): every pixel is zero.
NewRGBA(w, h) ==
    [W |-> w, H |-> h, Pix |-> [q \in (0 .. w - 1) \X (0 .. h - 1) |-> ZeroRGBA]]

\* img.SetRGBA(x, y, c): a point outside the rectangle is ignored.
SetRGBA(im, x, y, c) ==
    IF <<x, y>> \in DOMAIN im.Pix
    THEN [im EXCEPT !.Pix = [im.Pix EXCEPT ![<<x, y>>] = c]]
    ELSE im

(***************************************************************************)
(* The bounds of the model, and the scenes Render is run on.               *)
(***************************************************************************)
MaxStripes == 4

MaxH == 5

MaxW == 1

MaxCalls == 2

Half == FQ(1, 2)

\* A sphere on the axis of the frustum and one beside it, toward the light.
RenderObjects ==
    << Sphere(GeomSphere(Point(F(0), F(0), F(5)), Half), Color(F(1), F(0), Half)),
       Sphere(GeomSphere(Point(F(-2), F(0), FQ(9, 2)), Half), Color(F(0), F(1), F(0))) >>

\* A valid scene whose near plane is w + 1/2 wide and h + 1/2 high, so that
\* the image is w by h; the far plane is a square of twice that width.
RenderScene(w, h) ==
    Scene(Frustum(Plane2d(F(0), FAdd(F(h), Half), FAdd(F(w), Half), F(0), F(0)),
                  Plane2d(F(0), F(2 * w + 1), F(2 * w + 1), F(0), F(10))),
          Point(F(-4), F(0), FQ(9, 2)),
          RenderObjects,
          Color(FQ(1, 5), FQ(2, 5), FQ(3, 5)),
          Half)

ValidRenderScenes == {RenderScene(w, h) : w \in 0 .. MaxW, h \in 0 .. MaxH}

\* One scene for each check of Validate that can fail.
InvalidRenderScenes ==
    LET g == RenderScene(1, 2)
        o == g.Objects[1]
    IN  { [g EXCEPT !.Objects = <<o, [o EXCEPT !.Sphere.Radius = F(-1)]>>],
          [g EXCEPT !.Objects = <<[o EXCEPT !.Color.G = FQ(3, 2)]>>],
          [g EXCEPT !.Bg.B = FQ(-1, 2)],
          [g EXCEPT !.Kd = FQ(3, 2)],
          [g EXCEPT !.ViewFrustum.Near.Br.X = F(0)],
          [g EXCEPT !.ViewFrustum.Far.Tl.Y = F(-1)] }

\* What uint8 gives for NaN on the build at hand.
OorBytes == {0, 255}

\* s.renderPixel(float64(x)+vp.Tl.X, -vp.Br.Y-float64(y)) for pixel (x, y).
pixelOf(s, x, y, o) ==
    renderPixel(s, FAdd(F(x), s.ViewFrustum.Near.Tl.X),
                FSub(FNeg(s.ViewFrustum.Near.Br.Y), F(y)), o)

\* renderPixel reads the scene and writes nothing, so a pixel is the same
\* whenever and by whichever worker it is computed: the pixels of the valid
\* scenes are computed once, here, and looked up by the workers.
renderedPixels ==
    UNION {{[s |-> s, o |-> o, x |-> x, y |-> y, c |-> pixelOf(s, x, y, o)] :
                x \in 0 .. IntOf(Dx(s.ViewFrustum.Near)) - 1,
                y \in 0 .. IntOf(Dy(s.ViewFrustum.Near)) - 1,
                o \in OorBytes} : s \in ValidRenderScenes}

\* c := s.renderPixel(...) in a worker.
workerPixel(s, x, y, o) ==
    IF s \in ValidRenderScenes
    THEN (CHOOSE t \in renderedPixels : t.s = s /\ t.o = o /\ t.x = x /\ t.y = y).c
    ELSE pixelOf(s, x, y, o)

(***************************************************************************)
(* The state.                                                              *)
(***************************************************************************)
VARIABLES
    scene,      \* the Scene being rendered; never modified
    oor,        \* the build's uint8 of a value out of range
    calls,      \* the Render calls made so far
    arg,        \* the nstripes argument of the current call
    mpc,        \* where the goroutine that called Render is
    nstripes,   \* Render's nstripes, once clamped
    dims,       \* Render's w, h and slice
    n,          \* the n of the loop that starts the workers
    rcv,        \* the n of the loop that receives from ch
    workers,    \* the worker goroutines: ystart, yend, the pixel to write, pc
    img,        \* the image.RGBA being filled
    wlog,       \* history: every <<worker, x, y>> passed to img.SetRGBA
    ret,        \* what the last Render call returned
    prev,       \* history: nstripes and image of the call before it
    inp,        \* the arguments of the function under study
    out         \* its result

vars == <<scene, oor, calls, arg, mpc, nstripes, dims, n, rcv, workers, img, wlog,
          ret, prev, inp, out>>

rvars == <<calls, arg, mpc, nstripes, dims, n, rcv, workers, img, wlog, ret, prev>>

NoDims == [w |-> 0, h |-> 0, slice |-> 0]

NoRet == [done |-> FALSE, img |-> NilImage, err |-> nil]

NoPrev == [nstripes |-> 0, img |-> NilImage]

NoInp == [f |-> "none"]

NoOut == [f |-> "none"]

RenderIdle ==
    /\ calls = 0
    /\ arg = 0
    /\ mpc = "idle"
    /\ nstripes = 0
    /\ dims = NoDims
    /\ n = 0
    /\ rcv = 0
    /\ workers = <<>>
    /\ img = NilImage
    /\ wlog = {}
    /\ ret = NoRet
    /\ prev = NoPrev

Init ==
    /\ scene \in ValidRenderScenes \cup InvalidRenderScenes
    /\ oor \in OorBytes
    /\ RenderIdle
    /\ inp = NoInp
    /\ out = NoOut

(***************************************************************************)
(* Scene.Render.                                                           *)
(***************************************************************************)
clampStripes(a) == IF a < 1 THEN 1 ELSE a

\* Render without its check of the error of Validate.
validateFailedIgnored(err) == FALSE

\* if err := s.Validate(); err != nil
validateFailed(err) == err # nil

sliceOf(h, ns) == h \div ns

ystartOf(slice, k) == slice * k

\* A band that runs one row into the next.
yendOfOverlapping(ystart, slice) == ystart + slice + 1

yendOf(ystart, slice) == ystart + slice

\* A receiving loop that stops one value short.
receiveCountShort(ns) == ns - 1

\* How many values the receiving loop takes from ch.
receiveCount(ns) == ns

\* A worker goroutine entering its loops: at its first pixel, or at the
\* send when its loops have no pixel.
workerAt(ys, ye, y, x, w) ==
    IF y < ye /\ x < w
    THEN [ystart |-> ys, yend |-> ye, y |-> y, x |-> x, pc |-> "run"]
    ELSE [ystart |-> ys, yend |-> ye, y |-> ye, x |-> 0, pc |-> "send"]

\* s.Render(a) is called: nstripes < 1 becomes 1.  Render is called up to
\* MaxCalls times on a scene, as by the loop of renderScene, each time with
\* an nstripes of the caller's choosing.
Call(a) ==
    /\ mpc = "idle"
    /\ calls < MaxCalls
    /\ calls' = calls + 1
    /\ arg' = a
    /\ nstripes' = clampStripes(a)
    /\ mpc' = "validate"
    /\ prev' = IF ret.done /\ ret.err = nil
               THEN [nstripes |-> nstripes, img |-> ret.img]
               ELSE NoPrev
    /\ ret' = NoRet
    /\ dims' = NoDims
    /\ n' = 0
    /\ rcv' = 0
    /\ workers' = <<>>
    /\ img' = NilImage
    /\ wlog' = {}
    /\ UNCHANGED <<scene, oor, inp, out>>

\* s.Validate() failed: return nil, err.
ValidateFail ==
    /\ mpc = "validate"
    /\ validateFailed(Validate(scene))
    /\ ret' = [done |-> TRUE, img |-> NilImage, err |-> Validate(scene)]
    /\ mpc' = "idle"
    /\ UNCHANGED <<scene, oor, calls, arg, nstripes, dims, n, rcv, workers, img, wlog,
                   prev, inp, out>>

\* s.Validate() passed: w, h, the image, slice and the channel.
ValidateOk ==
    /\ mpc = "validate"
    /\ ~validateFailed(Validate(scene))
    /\ LET vp == scene.ViewFrustum.Near
           w  == IntOf(Dx(vp))
           h  == IntOf(Dy(vp))
       IN  /\ dims' = [w |-> w, h |-> h, slice |-> sliceOf(h, nstripes)]
           /\ img' = NewRGBA(w, h)
    /\ n' = 0
    /\ mpc' = "spawn"
    /\ UNCHANGED <<scene, oor, calls, arg, nstripes, rcv, workers, wlog, ret, prev,
                   inp, out>>

\* One turn of the first loop: go func() {...}() for stripe n.
Spawn ==
    /\ mpc = "spawn"
    /\ n < nstripes
    /\ LET ystart == ystartOf(dims.slice, n)
           yend   == yendOf(ystart, dims.slice)
       IN  workers' = Append(workers, workerAt(ystart, yend, ystart, 0, dims.w))
    /\ n' = n + 1
    /\ UNCHANGED <<scene, oor, calls, arg, mpc, nstripes, dims, rcv, img, wlog, ret,
                   prev, inp, out>>

\* The first loop ends; the second begins.
SpawnDone ==
    /\ mpc = "spawn"
    /\ n >= nstripes
    /\ mpc' = "join"
    /\ rcv' = 0
    /\ UNCHANGED <<scene, oor, calls, arg, nstripes, dims, n, workers, img, wlog, ret,
                   prev, inp, out>>

\* Worker k renders one pixel and stores it, then moves to its next pixel.
WritePixel(k) ==
    /\ k \in DOMAIN workers
    /\ workers[k].pc = "run"
    /\ LET wk == workers[k]
       IN  /\ img' = SetRGBA(img, wk.x, wk.y, workerPixel(scene, wk.x, wk.y, oor))
           /\ wlog' = wlog \cup {<<k, wk.x, wk.y>>}
           /\ workers' = [workers EXCEPT ![k] =
                  IF wk.x + 1 < dims.w
                  THEN workerAt(wk.ystart, wk.yend, wk.y, wk.x + 1, dims.w)
                  ELSE workerAt(wk.ystart, wk.yend, wk.y + 1, 0, dims.w)]
    /\ UNCHANGED <<scene, oor, calls, arg, mpc, nstripes, dims, n, rcv, ret, prev,
                   inp, out>>

\* ch is unbuffered: worker k's ch <- true and a <-ch of Render happen
\* together.
Rendezvous(k) ==
    /\ k \in DOMAIN workers
    /\ workers[k].pc = "send"
    /\ mpc = "join"
    /\ rcv < receiveCount(nstripes)
    /\ workers' = [workers EXCEPT ![k].pc = "done"]
    /\ rcv' = rcv + 1
    /\ UNCHANGED <<scene, oor, calls, arg, mpc, nstripes, dims, n, img, wlog, ret,
                   prev, inp, out>>

\* The second loop ends: return img, nil.
Return ==
    /\ mpc = "join"
    /\ rcv >= receiveCount(nstripes)
    /\ ret' = [done |-> TRUE, img |-> img, err |-> nil]
    /\ mpc' = "idle"
    /\ UNCHANGED <<scene, oor, calls, arg, nstripes, dims, n, rcv, workers, img, wlog,
                   prev, inp, out>>

Next ==
    \/ \E a \in -1 .. MaxStripes : Call(a)
    \/ ValidateFail
    \/ ValidateOk
    \/ Spawn
    \/ SpawnDone
    \/ \E k \in DOMAIN workers : WritePixel(k)
    \/ \E k \in DOMAIN workers : Rendezvous(k)
    \/ Return

Spec == Init /\ [][Next]_vars

\* The steps of the goroutine that called Render.
MainStep == ValidateFail \/ ValidateOk \/ Spawn \/ SpawnDone \/ Return

\* The Go scheduler runs every goroutine that can run: the caller of Render
\* and each worker keep taking their steps; a send and a receive that are
\* both ready on ch meet.  When Render is called is left to the driver.
FairSpec ==
    /\ Spec
    /\ WF_vars(MainStep)
    /\ \A k \in 1 .. MaxStripes : WF_vars(WritePixel(k)) /\ WF_vars(Rendezvous(k))

(***************************************************************************)
(* Render: the claims.                                                     *)
(***************************************************************************)
\* Render has returned an image.
Returned == ret.done /\ ret.err = nil

\* The pixels of the rows ystart .. yend - 1.
BandPixels(ystart, yend) == (0 .. dims.w - 1) \X (ystart .. yend - 1)

\* C1: on a scene that Validate rejects, for every nstripes, Render returns
\* that error and no image, and does it before any band worker is started:
\* no worker is spawned, no image is made and no pixel is written.
RenderRefusesInvalidScene ==
    Validate(scene) # nil =>
        /\ mpc \in {"idle", "validate"}
        /\ workers = <<>>
        /\ wlog = {}
        /\ img = NilImage
        /\ ret.done => ret.err = Validate(scene) /\ ret.img = NilImage
        /\ mpc = "idle" /\ calls > 0 => ret.done

\* Render(4) has returned the error of an invalid scene.
InvalidSceneRefused ==
    /\ Validate(scene) # nil
    /\ arg = 4
    /\ ret.done
    /\ ret.err # nil

\* C2: on a valid scene Render(1) and Render(4) return identical images,
\* whatever the height h of the image.
RenderOneAndFourIdentical ==
    (Returned /\ prev.img # NilImage /\ {prev.nstripes, nstripes} = {1, 4})
        => ret.img = prev.img

\* C3: when Render returns on a valid scene, every row y of 0 .. h-1 lies in
\* the band of some worker and every pixel of the row holds the result of
\* renderPixel.
EveryRowRendered ==
    Returned =>
        \A y \in 0 .. dims.h - 1 :
            /\ \E k \in DOMAIN workers : workers[k].ystart <= y /\ y < workers[k].yend
            /\ \A x \in 0 .. dims.w - 1 : ret.img.Pix[<<x, y>>] = pixelOf(scene, x, y, oor)

\* C4: in every interleaving of the workers of a Render call, worker n (the
\* n+1-th of workers) writes only pixels of the rows n*slice .. (n+1)*slice-1,
\* with slice = h / nstripes; these rows are rows of the image; the bands of
\* two workers are disjoint and no pixel is written by two workers.
BandsExclusive ==
    /\ workers # <<>> => dims.slice = dims.h \div nstripes
    /\ \A e \in wlog :
        /\ (e[1] - 1) * dims.slice <= e[3] /\ e[3] < e[1] * dims.slice
        /\ 0 <= e[3] /\ e[3] < dims.h
        /\ 0 <= e[2] /\ e[2] < dims.w
        /\ \A d \in wlog : d[2] = e[2] /\ d[3] = e[3] => d[1] = e[1]
    /\ \A j, k \in DOMAIN workers :
        j # k => (workers[j].ystart .. workers[j].yend - 1)
                    \cap (workers[k].ystart .. workers[k].yend - 1) = {}

\* Two workers have each written a pixel and a third is still writing.
WorkersInterleaved ==
    /\ \E d, e \in wlog : d[1] # e[1]
    /\ \E k \in DOMAIN workers : workers[k].pc = "run" /\ \E e \in wlog : e[1] = k

\* Render has returned with max(1, nstripes) workers, each of which has
\* written every pixel of its band and delivered its value on ch.
AllWorkersJoined ==
    /\ Len(workers) = (IF arg < 1 THEN 1 ELSE arg)
    /\ \A k \in DOMAIN workers :
        /\ workers[k].pc = "done"
        /\ \A q \in BandPixels(workers[k].ystart, workers[k].yend) :
                <<k, q[1], q[2]>> \in wlog

\* C5: on a valid scene, for every nstripes (below 1 counting as 1), Render
\* starts exactly max(1, nstripes) workers and always eventually returns the
\* image; it returns only after each of these workers has written all the
\* pixels of its band and delivered its completion signal, so that no
\* worker is left blocked on its send.
RenderJoinsAllWorkers ==
    /\ [](Returned => AllWorkersJoined)
    /\ [](Len(workers) <= (IF arg < 1 THEN 1 ELSE arg))
    /\ (mpc = "validate" /\ Validate(scene) = nil) ~> (mpc = "idle" /\ Returned)

\* A Render of one stripe and then a Render of four have each returned an
\* image of four rows or more, every worker joined.
ClampedAndFourJoined ==
    /\ Returned
    /\ arg = 4
    /\ prev.nstripes = 1
    /\ dims.h >= 4
    /\ dims.w >= 1
    /\ AllWorkersJoined

(***************************************************************************)
(* The functions of the packages, each applied to arguments drawn from a   *)
(* bounded set: Render stays idle, inp holds the arguments other than the  *)
(* scene, out the result.                                                  *)
(***************************************************************************)
FEq(x, y) == FLe(x, y) /\ FLe(y, x)

\* The vector from point a to point b.
Towards(a, b) == [X |-> FSub(b.X, a.X), Y |-> FSub(b.Y, a.Y), Z |-> FSub(b.Z, a.Z)]

(***************************************************************************)
(* Scene.Validate.                                                         *)
(***************************************************************************)
GoodColor == Color(F(0), F(1), Half)

ValidateColors == {GoodColor, Color(FQ(3, 2), F(0), F(0)), Color(F(0), FQ(-1, 5), F(1)),
                   Color(F(1), F(1), NaN)}

ValidateSpheres ==
    {Sphere(GeomSphere(Origin, r), c) :
        r \in {F(-1), F(0), NaN}, c \in {GoodColor, Color(F(0), F(0), F(2))}}

ValidateObjects2 ==
    {<<>>} \cup {<<a>> : a \in ValidateSpheres}
           \cup {<<a, b>> : a \in ValidateSpheres, b \in ValidateSpheres}

GoodPlane == Plane2d(F(0), F(2), F(2), F(0), F(0))

ValidatePlanes == {GoodPlane, Plane2d(F(1), F(2), F(1), F(0), F(0)),
                   Plane2d(F(0), F(0), F(2), F(1), F(0)), Plane2d(F(0), F(2), NaN, F(0), F(0))}

ValidateKds == {FQ(-1, 2), F(0), F(1), FQ(3, 2), NaN}

ValidateScenes ==
    {Scene(Frustum(near, far), Origin, objs, bg, kd) :
        near \in ValidatePlanes, far \in ValidatePlanes, objs \in ValidateObjects2,
        bg \in ValidateColors, kd \in ValidateKds}

InitValidate ==
    /\ scene \in ValidateScenes
    /\ oor = 0
    /\ RenderIdle
    /\ inp = [f |-> "Validate"]
    /\ out = NoOut

DoValidate ==
    /\ inp.f = "Validate"
    /\ out = NoOut
    /\ out' = [f |-> "Validate", err |-> Validate(scene)]
    /\ UNCHANGED <<scene, oor, inp, rvars>>

NextValidate == DoValidate

SpecValidate == InitValidate /\ [][NextValidate]_vars

\* The rules of a scene, as the claim states them.
RadiusInRange(o) == FLe(Zero, o.Sphere.Radius)

ChannelsInRange(c) ==
    \A ch \in {c.R, c.G, c.B} : FLe(Zero, ch) /\ FLe(ch, One)

KdInRange(s) == FLe(Zero, s.Kd) /\ FLe(s.Kd, One)

PlaneInRange(pl) == FLt(pl.Tl.X, pl.Br.X) /\ FLt(pl.Br.Y, pl.Tl.Y)

BadObjects(s) ==
    {i \in DOMAIN s.Objects :
        ~RadiusInRange(s.Objects[i]) \/ ~ChannelsInRange(s.Objects[i].Color)}

\* The error of the first rule broken, in the order objects (sphere before
\* colour), background, Kd, near plane, far plane; nil when none is.
FirstViolation(s) ==
    IF BadObjects(s) # {}
    THEN LET i == CHOOSE i \in BadObjects(s) : \A j \in BadObjects(s) : i <= j
         IN  IF ~RadiusInRange(s.Objects[i])
             THEN <<"invalid scene object", "invalid sphere: negative radius">>
             ELSE <<"invalid scene object", "invalid sphere", "color out-of-range">>
    ELSE IF ~ChannelsInRange(s.Bg)
    THEN <<"invalid scene background", "color out-of-range">>
    ELSE IF ~KdInRange(s) THEN <<"invalid scene diffuse coefficient">>
    ELSE IF ~PlaneInRange(s.ViewFrustum.Near)
    THEN <<"invalid scene frustum", "invalid near frustum plane",
           "negative or null plane width or height">>
    ELSE IF ~PlaneInRange(s.ViewFrustum.Far)
    THEN <<"invalid scene frustum", "invalid far frustum plane",
           "negative or null plane width or height">>
    ELSE nil

\* C6: Validate returns no error exactly when every object has a radius
\* >= 0 and colour channels in [0,1], the background has its channels in
\* [0,1], Kd is in [0,1] and both planes have Tl.X < Br.X and Tl.Y > Br.Y;
\* otherwise it returns the error of the first rule broken, in the order
\* objects (sphere before colour), background, Kd, near plane, far plane,
\* and the error names the failing part of the scene.
ValidateFirstViolation ==
    out.f = "Validate" => out.err = FirstViolation(scene)

\* No field of the scene is NaN.
RECURSIVE AnyNaN(_)
AnyNaN(fs) == fs # <<>> /\ (IsNaN(Head(fs)) \/ AnyNaN(Tail(fs)))

SceneFinite(s) ==
    /\ ~AnyNaN(<<s.Kd, s.Bg.R, s.Bg.G, s.Bg.B>>)
    /\ \A pl \in {s.ViewFrustum.Near, s.ViewFrustum.Far} :
            ~AnyNaN(<<pl.Tl.X, pl.Tl.Y, pl.Br.X, pl.Br.Y>>)
    /\ \A i \in DOMAIN s.Objects :
            ~AnyNaN(<<s.Objects[i].Sphere.Radius, s.Objects[i].Color.R,
                      s.Objects[i].Color.G, s.Objects[i].Color.B>>)

\* On a scene without NaN, Validate returns the error of the first rule
\* broken, and nil when none is.
ValidateFirstViolationFinite ==
    (out.f = "Validate" /\ SceneFinite(scene)) => out.err = FirstViolation(scene)

(***************************************************************************)
(* Scene.castRay.                                                          *)
(***************************************************************************)
CastSpheres ==
    {Sphere(GeomSphere(c, r), GoodColor) :
        c \in {Point(F(0), F(0), F(5)), Point(F(0), F(0), F(8)), Point(F(1), F(0), F(5))},
        r \in {Half, F(1)}}

CastObjects ==
    {<<>>} \cup {<<a>> : a \in CastSpheres}
           \cup {<<a, b>> : a \in CastSpheres, b \in CastSpheres}

CastPoints == {Origin, Point(F(0), F(0), F(10)), Point(F(1), F(0), F(10)),
               Point(F(0), F(1), F(4)), Point(F(0), F(0), FQ(9, 2))}

CastRays == {Line(a, b) : a \in CastPoints, b \in CastPoints}

InitCast ==
    /\ scene \in {Scene(Frustum(GoodPlane, GoodPlane), Origin, objs, GoodColor, Half) :
                    objs \in CastObjects}
    /\ oor = 0
    /\ RenderIdle
    /\ inp \in {[f |-> "castRay", ray |-> r] : r \in CastRays}
    /\ out = NoOut

DoCastRay ==
    /\ inp.f = "castRay"
    /\ out = NoOut
    /\ out' = [f |-> "castRay", hit |-> castRay(scene, inp.ray)]
    /\ UNCHANGED <<scene, oor, inp, rvars>>

NextCast == DoCastRay

SpecCast == InitCast /\ [][NextCast]_vars

\* The objects whose intersection test with the ray reports found.
Found(s, ray) ==
    {i \in DOMAIN s.Objects : SphereLineIntersection(s.Objects[i].Sphere, ray).ok}

\* C7: castRay returns no object exactly when no object's intersection test
\* reports found; otherwise it returns the object whose t is the least
\* among the objects found, with that object's hit point, and of several
\* objects with this least t the one of smallest index.
CastRayNearest ==
    out.f = "castRay" =>
        /\ out.hit.obj = NoObject <=> Found(scene, inp.ray) = {}
        /\ out.hit.obj # NoObject =>
            LET r == SphereLineIntersection(scene.Objects[out.hit.obj].Sphere, inp.ray)
            IN  /\ out.hit.obj \in Found(scene, inp.ray)
                /\ out.hit.intersection = r.p
                /\ \A j \in Found(scene, inp.ray) :
                    LET q == SphereLineIntersection(scene.Objects[j].Sphere, inp.ray)
                    IN  /\ FLe(r.t, q.t)
                        /\ FEq(r.t, q.t) => out.hit.obj <= j

\* The same, for a ray whose two points differ.
CastRayNearestProperRay ==
    inp.f = "castRay" /\ inp.ray[1] # inp.ray[2] => CastRayNearest

\* castRay has chosen the first of two objects found at the same t.
CastRayTie ==
    /\ out.f = "castRay"
    /\ inp.ray[1] # inp.ray[2]
    /\ out.hit.obj = 1
    /\ 2 \in Found(scene, inp.ray)
    /\ FEq(SphereLineIntersection(scene.Objects[1].Sphere, inp.ray).t,
           SphereLineIntersection(scene.Objects[2].Sphere, inp.ray).t)

(***************************************************************************)
(* Scene.renderPixel.                                                      *)
(***************************************************************************)
PixelKd == FQ(1, 4)

PixelA == Sphere(GeomSphere(Point(F(0), F(0), F(5)), Half), Color(F(1), F(0), Half))

PixelB == Sphere(GeomSphere(Point(F(-2), F(0), FQ(9, 2)), Half), Color(F(0), F(1), F(0)))

PixelC == Sphere(GeomSphere(Point(F(-2), F(0), F(7)), F(1)), Color(F(0), F(0), F(1)))

PixelObjects == {<<>>, <<PixelA>>, <<PixelA, PixelB>>, <<PixelB, PixelA>>, <<PixelC>>,
                 <<PixelC, PixelA>>}

PixelLights == {Origin, Point(F(-4), F(0), FQ(9, 2)), Point(F(3), F(0), Half)}

\* A square near plane and one twice as high as wide.
PixelNearPlanes == {Plane2d(F(-1), F(1), F(1), F(-1), F(0)),
                    Plane2d(F(-1), F(2), F(1), F(-2), F(0))}

PixelFarPlane == Plane2d(F(-2), F(2), F(2), F(-2), F(10))

PixelScenes ==
    {Scene(Frustum(near, PixelFarPlane), light, objs, Color(FQ(1, 5), FQ(2, 5), FQ(3, 5)),
           PixelKd) :
        near \in PixelNearPlanes, light \in PixelLights, objs \in PixelObjects}

PixelCoords == {-1, 0, 1}

\* The numbers of the model are the u + v*sqrt(k): a pixel is kept when the
\* point its primary ray hits has rational coordinates.
Representable(s, x, y) ==
    Let1(castRay(s, primaryRay(s, x, y)), LAMBDA hit :
        hit.obj # NoObject =>
            IsRational(hit.intersection.X) /\ IsRational(hit.intersection.Y)
                /\ IsRational(hit.intersection.Z))

InitPixel ==
    /\ scene \in PixelScenes
    /\ oor \in OorBytes
    /\ RenderIdle
    /\ inp \in {[f |-> "renderPixel", x |-> F(x), y |-> F(y)] :
                  x \in PixelCoords, y \in PixelCoords}
    /\ Representable(scene, inp.x, inp.y)
    /\ out = NoOut

DoRenderPixel ==
    /\ inp.f = "renderPixel"
    /\ out = NoOut
    /\ out' = [f |-> "renderPixel",
               ray |-> primaryRay(scene, inp.x, inp.y),
               rgba |-> renderPixel(scene, inp.x, inp.y, oor)]
    /\ UNCHANGED <<scene, oor, inp, rvars>>

NextPixel == DoRenderPixel

SpecPixel == InitPixel /\ [][NextPixel]_vars

\* The far-plane point of the ray.
FarPoint == out.ray[2]

PrimaryHit == castRay(scene, out.ray)

ShadowHit == castRay(scene, Line(scene.Light, PrimaryHit.intersection))

\* The colour the decision of the claim gives.
DecidedColor ==
    IF PrimaryHit.obj # NoObject
    THEN IF ShadowHit.obj # NoObject /\ ShadowHit.obj # PrimaryHit.obj
         THEN LET c == scene.Objects[PrimaryHit.obj].Color
              IN  Color(FMul(FSub(One, scene.Kd), c.R), FMul(FSub(One, scene.Kd), c.G),
                        FMul(FSub(One, scene.Kd), c.B))
         ELSE computeObjectColorAt(scene, PrimaryHit.obj, PrimaryHit.intersection)
    ELSE IF Found(scene, Line(FarPoint, scene.Light)) # {}
         THEN Color(FDiv(scene.Bg.R, Two), FDiv(scene.Bg.G, Two), FDiv(scene.Bg.B, Two))
         ELSE scene.Bg

\* C8: renderPixel decides the colour so: when the primary ray hits object
\* o at p, the ray from the light to p is cast, and the colour is (1-Kd)
\* times o's colour when the nearest hit of that ray is an object other
\* than o, the diffuse/ambient colour of o at p otherwise; when the primary
\* ray hits nothing, the colour is the background halved when the ray from
\* the far-plane point to the light meets any object, the background
\* otherwise.
PixelDecision ==
    out.f = "renderPixel" => out.rgba = toRGBA(DecidedColor, oor)

\* The four colours of the decision have each been returned.
PixelShadowed ==
    /\ out.f = "renderPixel"
    /\ PrimaryHit.obj # NoObject
    /\ ShadowHit.obj \notin {NoObject, PrimaryHit.obj}

PixelLit ==
    /\ out.f = "renderPixel"
    /\ PrimaryHit.obj # NoObject
    /\ ShadowHit.obj = PrimaryHit.obj
    /\ out.rgba.R > 200

PixelBgShadowed ==
    /\ out.f = "renderPixel"
    /\ PrimaryHit.obj = NoObject
    /\ Found(scene, Line(FarPoint, scene.Light)) # {}

PixelBgLit ==
    /\ out.f = "renderPixel"
    /\ PrimaryHit.obj = NoObject
    /\ scene.Objects # <<>>
    /\ Found(scene, Line(FarPoint, scene.Light)) = {}

\* C9: the primary ray of renderPixel starts at (x, y, Near.Z) and targets
\* (x * Far.Dx / Near.Dx, y * Far.Dy / Near.Dy, Far.Z): each coordinate is
\* scaled by the ratio of the extents of the planes along its own axis.
PrimaryRayScalesEachAxis ==
    out.f = "renderPixel" =>
        LET fr == scene.ViewFrustum
        IN  /\ out.ray[1] = Point(inp.x, inp.y, fr.Near.Z)
            /\ out.ray[2] =
                Point(FDiv(FMul(inp.x, FSub(fr.Far.Br.X, fr.Far.Tl.X)),
                           FSub(fr.Near.Br.X, fr.Near.Tl.X)),
                      FDiv(FMul(inp.y, FSub(fr.Far.Tl.Y, fr.Far.Br.Y)),
                           FSub(fr.Near.Tl.Y, fr.Near.Br.Y)),
                      fr.Far.Z)

(***************************************************************************)
(* Sphere.NormalVectorAt.                                                  *)
(***************************************************************************)
NormalCoords == {-1, 0, 1, 5}

NormalSpheres ==
    {GeomSphere(c, r) :
        c \in {Origin, Point(F(1), F(1), F(1)), Point(F(0), F(0), F(5))},
        r \in {Half, F(2)}}

NormalPoints ==
    {Point(F(x), F(y), F(z)) : x \in NormalCoords, y \in NormalCoords, z \in NormalCoords}

InitNormal ==
    /\ scene = RenderScene(1, 1)
    /\ oor = 0
    /\ RenderIdle
    /\ inp \in {[f |-> "NormalVectorAt", s |-> s, p |-> p] :
                  s \in NormalSpheres, p \in NormalPoints}
    /\ out = NoOut

DoNormalVectorAt ==
    /\ inp.f = "NormalVectorAt"
    /\ out = NoOut
    /\ out' = [f |-> "NormalVectorAt", v |-> NormalVectorAt(inp.s, inp.p)]
    /\ UNCHANGED <<scene, oor, inp, rvars>>

NextNormal == DoNormalVectorAt

SpecNormal == InitNormal /\ [][NextNormal]_vars

\* C10 as the code has it: for p other than the centre, NormalVectorAt(p) is
\* the unit vector of the direction from the centre to p (outward): its
\* product with the length of p - centre is p - centre, and its dot product
\* with the vector from p to the centre is negative.
NormalPointsOutward ==
    (out.f = "NormalVectorAt" /\ inp.p # inp.s.Center) =>
        LET away == Towards(inp.s.Center, inp.p)
            len  == FSqrt(FAdd(FAdd(FMul(away.X, away.X), FMul(away.Y, away.Y)),
                               FMul(away.Z, away.Z)))
        IN  /\ FEq(FAdd(FAdd(FMul(out.v.X, out.v.X), FMul(out.v.Y, out.v.Y)),
                         FMul(out.v.Z, out.v.Z)), One)
            /\ FEq(FMul(out.v.X, len), away.X)
            /\ FEq(FMul(out.v.Y, len), away.Y)
            /\ FEq(FMul(out.v.Z, len), away.Z)
            /\ FLt(DotProduct(out.v, Towards(inp.p, inp.s.Center)), Zero)

\* C10: for p other than the centre, NormalVectorAt(p) points from p toward
\* the centre: its dot product with the vector from p to the centre is
\* positive.
NormalPointsInward ==
    (out.f = "NormalVectorAt" /\ inp.p # inp.s.Center) =>
        FLt(Zero, DotProduct(out.v, Towards(inp.p, inp.s.Center)))

\* The normal of the test of the package: centre (1,1,1), p = (5,1,1).
NormalOfTest ==
    /\ out.f = "NormalVectorAt"
    /\ inp.s.Center = Point(F(1), F(1), F(1))
    /\ inp.p = Point(F(5), F(1), F(1))
    /\ out.v = [X |-> F(1), Y |-> F(0), Z |-> F(0)]

====
